---------------------------- MODULE Spec2Model ----------------------------
(***************************************************************************)
(* The DAG task engine of src/sequenceBuilderV5.ts: Sequence.addLayer and  *)
(* Sequence.build, Graph.addTask, topologicalSortWithPriority, Semaphore,  *)
(* executeTaskWithRetries and executeTasksWithConcurrencyLimit.            *)
(*                                                                         *)
(* Run state is kept per node id (the node's task object is the first      *)
(* descriptor added with that id, Graph.addTask line 130-134).             *)
(* An action (the user's task.action) is modelled as a call that is in     *)
(* flight until the environment lets it return or throw; its return value  *)
(* is a term built from the task id and the arguments it received, so the  *)
(* flow of artifacts is visible in the state.                              *)
(*                                                                         *)
(* The AdvancedSequenceBuilder of src/sequenceBuilderV4.ts (both           *)
(* definitions of the class, in-memory mode) is modelled beside it, in     *)
(* variables of its own (builderVars, SpecBuilder).                        *)
(***************************************************************************)
EXTENDS Integers, Sequences, FiniteSets, TLC

\* ------------------------------------------------------------------ bounds
MaxTasks == 3
MaxDeps == 2
MaxRetries == 1
MaxPriority == 1
MaxK == 2
MaxTime == 2
\* The planner's runs (SpecPlan) take one more task and one more priority.
MaxPlanTasks == 4
MaxPlanPriority == 2
\* Calls of build() on one Sequence (SpecRerun).
MaxBuilds == 2
\* The task runner's runs (SpecRetry) take fewer tasks, each with a retryDelay.
MaxRetryTasks == 2
MaxDelay == 1
\* The layers of an AdvancedSequenceBuilder, the names one dependsOn lists and
\* the calls of removeLayer (SpecBuilder).
MaxLayers == 3
MaxDependsOn == 2
MaxRemovals == 1

\* The task ids, in the order in which the model hands out fresh ones (the code
\* never compares ids but for equality).
IdOrder == <<"A", "B", "C", "D", "E", "F">>
LayerIds == {IdOrder[i] : i \in 1..MaxTasks}
Ids == {IdOrder[i] : i \in 1..MaxPlanTasks}

VARIABLES
    tasks,        \* Sequence.tasks: the descriptors, in the order addLayer got them
    config,       \* Sequence.config: a record that may or may not hold maxConcurrency
    dag,          \* Sequence.dag: [order: ids in Map insertion order, nodes: id -> GraphNode]
    buildState,   \* the promise of build(): "idle" (not called), "running", "resolved", "rejected"
    buildError,   \* the rejection reason of build()
    mainSpan,     \* status and message of the "Execute Sequence" span
    sortedNodes,  \* the planner's order handed to the driver
    nodeLevels,   \* executeTasksWithConcurrencyLimit: nodeLevels
    level,        \* executeTasksWithConcurrencyLimit: the for loop's level
    semaphore,    \* [counter, tasks]: free permits and the FIFO of waiting launches
    resumed,      \* the launches whose acquire() has resolved and that have not run on yet,
                  \* in the order in which they will (the microtask queue)
    pc,           \* per node: "new", "waiting", "granted", "running", "sleeping", "done"
    status,       \* task.status: "unset", "success", "failed"
    artifact,     \* task.artifact
    metrics,      \* task.metrics: [set, startTime, endTime, duration]
    attempts,     \* executeTaskWithRetries: attempts (failed attempts so far)
    invocations,  \* number of calls of task.action
    args,         \* the arguments of the latest call of task.action
    startTime,    \* executeTaskWithRetries: startTime of the attempt in flight (0 when none is)
    now,          \* Date.now()
    builds,       \* how many times build() was called
    waitOrder,    \* SpecSemaphore: the callers of acquire() that wait, longest wait first
    emitted,      \* per task, the records written for it by log() and span.addEvent(), in
                  \* order: [type, at], at being the latest clock value read by then
    span,         \* per task, the span of executeTaskWithRetries: [status, ends], the
                  \* status last set and the number of calls of span.end()
    \* AdvancedSequenceBuilder of src/sequenceBuilderV4.ts, in-memory mode
    definition,        \* which definition of the class: 1 (l.151) or 2 (l.935)
    concurrency,       \* config.concurrency
    layers,            \* the keys of this.layers, in Map insertion order
    dependencies,      \* this.dependencies: name -> the Set of dependsOn, in insertion order
    removed,           \* the names given to removeLayer so far
    buildPromise,      \* the promise of build(): "idle", "pending", "resolved", "rejected"
    buildRejection,    \* the error build() rejected with
    sortedLayers,      \* build: the result of topologicalSort()
    cursor,            \* concurrencyManager: the place of the for loop in sortedLayers
    executionPromises, \* executeLayersInOrder: name -> "pending", "fulfilled", "rejected"
    awaited,           \* per call of executeLayer: the promises its Promise.all was given
    executingTasks,    \* executeLayersInOrder: executingTasks
    executing,         \* the layers whose execute function is in flight
    executions,        \* per name, the number of calls of its execute function
    settled            \* the names whose executeLayer promise has settled, first settled first

\* The fields of one AdvancedSequenceBuilder and the locals of its build().
builderVars == <<definition, concurrency, layers, dependencies, removed,
                 buildPromise, buildRejection, sortedLayers, cursor,
                 executionPromises, awaited, executingTasks, executing,
                 executions, settled>>

\* The fields of one Sequence and the locals of its build().
sequenceVars == <<tasks, config, dag, buildState, buildError, mainSpan, sortedNodes,
                  nodeLevels, level, semaphore, resumed, pc, status, artifact,
                  metrics, attempts, invocations, args, startTime, now, builds,
                  waitOrder, emitted, span>>

vars == <<sequenceVars, builderVars>>

runVars == <<pc, status, artifact, metrics, attempts, invocations, args, startTime>>

\* ----------------------------------------------------------------- values
\* JavaScript null and undefined, and the value an action returns.
Null == <<"null">>
Undefined == <<"undefined">>

RECURSIVE Join(_)
Join(xs) == IF xs = <<>> THEN <<>> ELSE Head(xs) \o <<",">> \o Join(Tail(xs))

\* task.action(...args) of the task `id`: a term naming the task and its arguments.
ActionResult(id, as) == <<id, "(">> \o Join(as) \o <<")">>

Range(s) == {s[i] : i \in DOMAIN s}

Max(S) == CHOOSE x \in S : \A y \in S : y <= x

NoMetrics == [set |-> FALSE, startTime |-> 0, endTime |-> 0, duration |-> 0]

NoError == [kind |-> "none", dep |-> "", task |-> ""]
DependencyNotFound(depId, id) == [kind |-> "DependencyNotFound", dep |-> depId, task |-> id]
CycleError == [kind |-> "Cycle", dep |-> "", task |-> ""]
AbortError(id) == [kind |-> "Abort", dep |-> "", task |-> id]
TimelineError == [kind |-> "TypeError", dep |-> "", task |-> ""]

\* ------------------------------------------------------------ descriptors
DepLists == {s \in UNION {[1..n -> LayerIds] : n \in 0..MaxDeps} :
                \A i, j \in DOMAIN s : i # j => s[i] # s[j]}

\* LayerConfig.onError; left out, it acts as "continue" (l.324).
OnErrors == {"continue", "abort"}

\* --------------------------------------------------------- Graph (l.113-148)
EmptyGraph == [order |-> <<>>, nodes |-> <<>>]

GraphNode(i) == [task |-> i, dependencies |-> <<>>, dependents |-> <<>>, inDegree |-> 0]

\* linkDependencies with the check of line 139 left out: an id that is not in
\* the Map is skipped instead of thrown.
RECURSIVE linkDependenciesLenient(_, _, _, _)
linkDependenciesLenient(g, id, deps, k) ==
    IF k > Len(deps) THEN [graph |-> g, error |-> NoError]
    ELSE LET depId == deps[k] IN
         IF depId \notin DOMAIN g.nodes
         THEN linkDependenciesLenient(g, id, deps, k + 1)
         ELSE LET n1 == [g.nodes EXCEPT ![id].dependencies = Append(@, depId),
                                        ![id].inDegree = @ + 1]
                  n2 == [n1 EXCEPT ![depId].dependents = Append(@, id)]
              IN linkDependenciesLenient([g EXCEPT !.nodes = n2], id, deps, k + 1)

\* task.dependencies.forEach(...): links depId = deps[k], deps[k+1], ... and stops
\* at the first id that is not in the Map (the throw of line 140).
RECURSIVE linkDependencies(_, _, _, _)
linkDependencies(g, id, deps, k) ==
    IF k > Len(deps) THEN [graph |-> g, error |-> NoError]
    ELSE LET depId == deps[k] IN
         IF depId \notin DOMAIN g.nodes
         THEN [graph |-> g, error |-> DependencyNotFound(depId, id)]
         ELSE LET n1 == [g.nodes EXCEPT ![id].dependencies = Append(@, depId),
                                        ![id].inDegree = @ + 1]
                  n2 == [n1 EXCEPT ![depId].dependents = Append(@, id)]
              IN linkDependencies([g EXCEPT !.nodes = n2], id, deps, k + 1)

\* Graph.addTask(task) for the descriptor ts[i].
addTask(g, ts, i) ==
    LET id == ts[i].id
        g1 == IF id \in DOMAIN g.nodes THEN g
              ELSE [order |-> Append(g.order, id),
                    nodes |-> g.nodes @@ (id :> GraphNode(i))]
    IN linkDependencies(g1, id, ts[i].dependencies, 1)

\* this.tasks.forEach((task) => this.dag.addTask(task)), from descriptor i on.
RECURSIVE addTasks(_, _, _)
addTasks(g, ts, i) ==
    IF i > Len(ts) THEN [graph |-> g, error |-> NoError]
    ELSE LET r == addTask(g, ts, i) IN
         IF r.error # NoError THEN r ELSE addTasks(r.graph, ts, i + 1)

\* ------------------------------------- topologicalSortWithPriority (l.151-184)
priorityOf(g, ts, id) == ts[g.nodes[id].task].priority

\* The sort with ties reversed (an unstable sort).
RECURSIVE insertByPriorityUnstable(_, _, _, _)
insertByPriorityUnstable(g, ts, q, id) ==
    IF q = <<>> THEN <<id>>
    ELSE IF priorityOf(g, ts, Head(q)) > priorityOf(g, ts, id)
         THEN <<Head(q)>> \o insertByPriorityUnstable(g, ts, Tail(q), id)
         ELSE <<id>> \o q

\* queue.sort((a, b) => b.priority - a.priority): a stable sort, higher priority first.
RECURSIVE insertByPriority(_, _, _, _)
insertByPriority(g, ts, q, id) ==
    IF q = <<>> THEN <<id>>
    ELSE IF priorityOf(g, ts, Head(q)) >= priorityOf(g, ts, id)
         THEN <<Head(q)>> \o insertByPriority(g, ts, Tail(q), id)
         ELSE <<id>> \o q

RECURSIVE sortQueue(_, _, _)
sortQueue(g, ts, q) ==
    IF q = <<>> THEN <<>>
    ELSE insertByPriority(g, ts, sortQueue(g, ts, SubSeq(q, 1, Len(q) - 1)), q[Len(q)])

\* node.dependents.forEach: dependent.inDegree--, pushed when it reaches 0.
RECURSIVE decreaseInDegrees(_, _, _, _)
decreaseInDegrees(g, queue, deps, k) ==
    IF k > Len(deps) THEN [graph |-> g, queue |-> queue]
    ELSE LET d == deps[k]
             g1 == [g EXCEPT !.nodes[d].inDegree = @ - 1]
         IN decreaseInDegrees(g1,
                IF g1.nodes[d].inDegree = 0 THEN Append(queue, d) ELSE queue,
                deps, k + 1)

RECURSIVE sortLoop(_, _, _, _)
sortLoop(g, ts, queue, sorted) ==
    IF queue = <<>> THEN [graph |-> g, sorted |-> sorted]
    ELSE LET q == sortQueue(g, ts, queue)
             node == Head(q)
             r == decreaseInDegrees(g, Tail(q), g.nodes[node].dependents, 1)
         IN sortLoop(r.graph, ts, r.queue, Append(sorted, node))

\* The sort with the test of line 157 left out: every node starts in the queue.
topologicalSortAllReady(g, ts) ==
    LET r == sortLoop(g, ts, g.order, <<>>)
    IN [graph |-> r.graph, sorted |-> r.sorted,
        error |-> IF Len(r.sorted) # Len(g.order) THEN CycleError ELSE NoError]

topologicalSortWithPriority(g, ts) ==
    LET queue == SelectSeq(g.order, LAMBDA id : g.nodes[id].inDegree = 0)
        r == sortLoop(g, ts, queue, <<>>)
    IN [graph |-> r.graph, sorted |-> r.sorted,
        error |-> IF Len(r.sorted) # Len(g.order) THEN CycleError ELSE NoError]

\* ------------------------------------------------------ Semaphore (l.187-211)
\* acquire with the test of line 196 off by one (counter >= 0).
acquireOffByOne(sem, id) ==
    IF sem.counter >= 0
    THEN [sem |-> [sem EXCEPT !.counter = @ - 1], granted |-> TRUE]
    ELSE [sem |-> [sem EXCEPT !.tasks = Append(@, id)], granted |-> FALSE]

\* acquire(): takes a free permit, or queues the caller's resolver.
acquire(sem, id) ==
    IF sem.counter > 0
    THEN [sem |-> [sem EXCEPT !.counter = @ - 1], granted |-> TRUE]
    ELSE [sem |-> [sem EXCEPT !.tasks = Append(@, id)], granted |-> FALSE]

\* release() that resumes the waiter queued last (pop instead of shift).
releaseLast(sem) ==
    LET c == sem.counter + 1 IN
    IF Len(sem.tasks) > 0
    THEN [sem |-> [counter |-> c - 1, tasks |-> SubSeq(sem.tasks, 1, Len(sem.tasks) - 1)],
          resumed |-> <<sem.tasks[Len(sem.tasks)]>>]
    ELSE [sem |-> [counter |-> c, tasks |-> sem.tasks], resumed |-> <<>>]

\* release() without the counter-- of line 207: the permit handed to the waiter
\* is also counted free.
releaseKeepsFree(sem) ==
    LET c == sem.counter + 1 IN
    IF Len(sem.tasks) > 0
    THEN [sem |-> [counter |-> c, tasks |-> Tail(sem.tasks)],
          resumed |-> <<Head(sem.tasks)>>]
    ELSE [sem |-> [counter |-> c, tasks |-> sem.tasks], resumed |-> <<>>]

\* release() that takes the waiter off the queue and never calls it.
releaseDropsWaiter(sem) ==
    LET c == sem.counter + 1 IN
    IF Len(sem.tasks) > 0
    THEN [sem |-> [counter |-> c - 1, tasks |-> Tail(sem.tasks)], resumed |-> <<>>]
    ELSE [sem |-> [counter |-> c, tasks |-> sem.tasks], resumed |-> <<>>]

\* release(): counter++, and with a waiter: shift it, counter--, resume it.
release(sem) ==
    LET c == sem.counter + 1 IN
    IF Len(sem.tasks) > 0
    THEN [sem |-> [counter |-> c - 1, tasks |-> Tail(sem.tasks)],
          resumed |-> <<Head(sem.tasks)>>]
    ELSE [sem |-> [counter |-> c, tasks |-> sem.tasks], resumed |-> <<>>]

\* ------------------------------ executeTasksWithConcurrencyLimit (l.280-339)
\* NaN, which is what Math.max gives for the undefined level of a dependency
\* that the plan has not reached yet; no level of the loop equals it and
\* `level <= NaN` is false, as for any negative number.
NaN == -2

\* nodeLevels.get(dep)! for every dependency, fed to Math.max.
maxOfLevels(lv, deps) ==
    IF \E i \in DOMAIN deps : deps[i] \notin DOMAIN lv \/ lv[deps[i]] = NaN
    THEN NaN
    ELSE Max({lv[deps[i]] : i \in DOMAIN deps})

\* The level of a node as one more than the level of its first dependency.
RECURSIVE assignNodeLevelsByFirst(_, _, _, _)
assignNodeLevelsByFirst(g, sorted, k, lv) ==
    IF k > Len(sorted) THEN lv
    ELSE LET node == sorted[k]
             deps == g.nodes[node].dependencies
             l == IF Len(deps) > 0 THEN lv[deps[1]] + 1 ELSE 0
         IN assignNodeLevelsByFirst(g, sorted, k + 1, lv @@ (node :> l))

\* sortedNodes.forEach: level 0 without dependencies, else 1 + the highest
\* level of a dependency.
RECURSIVE assignNodeLevels(_, _, _, _)
assignNodeLevels(g, sorted, k, lv) ==
    IF k > Len(sorted) THEN lv
    ELSE LET node == sorted[k]
             deps == g.nodes[node].dependencies
             m == maxOfLevels(lv, deps)
             l == IF Len(deps) > 0
                  THEN (IF m = NaN THEN NaN ELSE m + 1)
                  ELSE 0
         IN assignNodeLevels(g, sorted, k + 1, lv @@ (node :> l))

\* Math.max(...nodeLevels.values()); -Infinity (here -1) for an empty plan.
maxLevelOf(lv) ==
    IF DOMAIN lv = {} THEN -1
    ELSE IF \E n \in DOMAIN lv : lv[n] = NaN THEN NaN
    ELSE Max({lv[n] : n \in DOMAIN lv})

nodesAtLevel(sorted, lv, l) == SelectSeq(sorted, LAMBDA n : lv[n] = l)

\* nodesAtLevel.map(async (node) => { await semaphore.acquire(); ... }): every
\* launch of the level calls acquire() in plan order before any of them resumes.
RECURSIVE launchAll(_, _, _, _, _)
launchAll(sem, p, rs, ns, k) ==
    IF k > Len(ns) THEN [sem |-> sem, pc |-> p, resumed |-> rs]
    ELSE LET r == acquire(sem, ns[k]) IN
         launchAll(r.sem,
                   [p EXCEPT ![ns[k]] = IF r.granted THEN "granted" ELSE "waiting"],
                   IF r.granted THEN Append(rs, ns[k]) ELSE rs,
                   ns, k + 1)

\* The barrier of line 304 as Promise.race: one ended launch lets the loop go on.
levelCompleteAny(sorted, lv, l, p) ==
    \E n \in Range(nodesAtLevel(sorted, lv, l)) : p[n] = "done"

\* await Promise.all(...) of the level the loop is at: every launch has ended.
levelComplete(sorted, lv, l, p) ==
    \A n \in Range(nodesAtLevel(sorted, lv, l)) : p[n] = "done"

\* Sequence.build after executeTasksWithConcurrencyLimit returned (l.722-726):
\* status OK, then generateTimeline, which reads sortedTasks[length - 1].metrics
\* and throws a TypeError into the catch of line 727 when no task has metrics.
finishedSpan(ms) ==
    IF \E n \in Ids : ms[n].set
    THEN [status |-> "OK", error |-> NoError]
    ELSE [status |-> "ERROR", error |-> TimelineError]

\* The for loop of line 300 resumed after the launch of a node ended without
\* throwing: p, sem, rs and ms are the launches, the semaphore, the resumed
\* launches and the metrics after that launch.
\* The loop goes on only while build() is pending (Promise.all settles once).
Advance(p, sem, rs, ms) ==
    IF buildState = "running" /\ levelComplete(sortedNodes, nodeLevels, level, p)
    THEN IF level + 1 > maxLevelOf(nodeLevels)
         THEN /\ buildState' = "resolved"
              /\ mainSpan' = finishedSpan(ms)
              /\ level' = level + 1
              /\ pc' = p
              /\ semaphore' = sem
              /\ resumed' = rs
         ELSE LET r == launchAll(sem, p, rs,
                           nodesAtLevel(sortedNodes, nodeLevels, level + 1), 1)
              IN /\ level' = level + 1
                 /\ pc' = r.pc
                 /\ semaphore' = r.sem
                 /\ resumed' = r.resumed
                 /\ UNCHANGED <<buildState, mainSpan>>
    ELSE /\ pc' = p
         /\ semaphore' = sem
         /\ resumed' = rs
         /\ UNCHANGED <<buildState, mainSpan, level>>

\* The permit of node n goes back; a resumed waiter holds it from then on.
afterRelease(n) ==
    LET r == release(semaphore) IN
    [sem |-> r.sem,
     resumed |-> resumed \o r.resumed,
     pc |-> [m \in Ids |-> IF m = n THEN "done"
                           ELSE IF m \in Range(r.resumed) THEN "granted" ELSE pc[m]]]

taskOf(n) == tasks[dag.nodes[n].task]

\* The argument list with the artifacts of failed dependencies filtered out.
dependencyResultsOfSucceeded(n) ==
    LET deps == SelectSeq(dag.nodes[n].dependencies, LAMBDA d : status[d] = "success") IN
    [i \in DOMAIN deps |-> artifact[deps[i]]]

\* The argument list in the reverse of the declared order.
dependencyResultsReversed(n) ==
    LET deps == dag.nodes[n].dependencies IN
    [i \in DOMAIN deps |-> artifact[deps[Len(deps) + 1 - i]]]

\* The argument list of a launch (l.308-313): the artifact of every dependency,
\* in the order of node.dependencies.
dependencyResults(n) ==
    LET deps == dag.nodes[n].dependencies IN
    [i \in DOMAIN deps |-> artifact[deps[i]]]

\* The test of line 324 never true: every failure is continued.
abortsNever(n) == FALSE

\* node.task.onError === "abort" (l.324).
abortsOnError(n) == taskOf(n).onError = "abort"

\* this.config.maxConcurrency ?? 2 (l.719).
DefaultConcurrency == 2
maxConcurrencyOf(c) ==
    IF "maxConcurrency" \in DOMAIN c THEN c.maxConcurrency ELSE DefaultConcurrency

\* The ids in use, and the next fresh one.
usedIds(ts) == {ts[i].id : i \in DOMAIN ts}
freshId(ts) == IdOrder[Cardinality(usedIds(ts)) + 1]

\* The loop test of line 224 off by one: one attempt too many.
maxAttemptsOffByOne(n) == taskOf(n).retryCount + 1

\* task.retryCount ?? 0 and task.retryDelay ?? 0 (l.221-222).
maxAttemptsOf(n) == taskOf(n).retryCount
retryDelayOf(n) == taskOf(n).retryDelay

\* A record written for a task.
record(type, at) == [type |-> type, at |-> at]

\* The time before which delay(retryDelay) of the sleeping task n does not
\* resolve: retryDelay after its call, which came after the last record.
timerOf(n) == emitted[n][Len(emitted[n])].at + retryDelayOf(n)

\* Date.now() read once the clock has reached `due`.
DateNowAfter(due) ==
    LET from == IF due > now THEN due ELSE now
    IN {t \in {from, from + 1} : t <= MaxTime}

\* Date.now(): the clock never goes back; between two reads it has stayed or
\* advanced (time that passes unread is not observable).
DateNow == {t \in {now, now + 1} : t <= MaxTime}

\* The span of a task before any call on it.
NoSpan == [status |-> "UNSET", ends |-> 0]

\* The names of the layers of an AdvancedSequenceBuilder.
LayerNames == {IdOrder[i] : i \in 1..MaxLayers}

\* No AdvancedSequenceBuilder is in use.
NoBuilder ==
    /\ definition = 1
    /\ concurrency = 1
    /\ layers = <<>>
    /\ dependencies = <<>>
    /\ removed = {}
    /\ buildPromise = "idle"
    /\ buildRejection = NoError
    /\ sortedLayers = <<>>
    /\ cursor = 1
    /\ executionPromises = <<>>
    /\ awaited = <<>>
    /\ executingTasks = {}
    /\ executing = {}
    /\ executions = [n \in LayerNames |-> 0]
    /\ settled = <<>>


\* ------------------- AdvancedSequenceBuilder (src/sequenceBuilderV4.ts), values
LayerNotFound(name) == [kind |-> "LayerNotFound", dep |-> "", task |-> name]
ExecuteError(name) == [kind |-> "ExecuteError", dep |-> "", task |-> name]
\* logMetrics with no metrics: sortedMetrics[sortedMetrics.length - 1][1] of undefined.
NoMetricsError == [kind |-> "TypeError", dep |-> "", task |-> "logMetrics"]

Pending == [state |-> "pending", reason |-> NoError]
Fulfilled == [state |-> "fulfilled", reason |-> NoError]
Rejected(error) == [state |-> "rejected", reason |-> error]

\* The dependsOn lists a layer can be added with.
DependsOnLists == {d \in UNION {[1..n -> LayerNames] : n \in 0..MaxDependsOn} :
                      \A i, j \in DOMAIN d : i # j => d[i] # d[j]}

\* this.dependencies.get(layerName) || new Set().
dependenciesOf(deps, name) == IF name \in DOMAIN deps THEN deps[name] ELSE <<>>

Reverse(xs) == [i \in 1..Len(xs) |-> xs[Len(xs) + 1 - i]]

\* topologicalSort (l.327-356, l.1098-1127): visit(layerName) marks the name,
\* visits its dependencies, then pushes the name; st is [visited, result].
RECURSIVE visit(_, _, _)
RECURSIVE visitEach(_, _, _, _)
visit(deps, st, layerName) ==
    IF layerName \in st.visited THEN st
    ELSE LET marked == [st EXCEPT !.visited = @ \cup {layerName}]
             after == visitEach(deps, marked, dependenciesOf(deps, layerName), 1)
         IN [after EXCEPT !.result = Append(@, layerName)]

\* for (const name of names) visit(name), from the k-th on.
visitEach(deps, st, names, k) ==
    IF k > Len(names) THEN st
    ELSE visitEach(deps, visit(deps, st, names[k]), names, k + 1)

\* The visit of every key of this.layers, and result.reverse().
topologicalSort(ls, deps) ==
    Reverse(visitEach(deps, [visited |-> {}, result |-> <<>>], ls, 1).result)

\* The locals of executeLayersInOrder, as one record.
execution ==
    [executionPromises |-> executionPromises, awaited |-> awaited,
     executingTasks |-> executingTasks, executing |-> executing,
     executions |-> executions, settled |-> settled]

\* executeLayer past its await (l.412-424, l.1179-1192 with processJob
\* l.1223-1235): this.layers.get(layerName), the throw when there is none,
\* else the call of layer.execute.
beginLayer(st, ls, layerName) ==
    IF layerName \in Range(ls)
    THEN [st EXCEPT !.executing = @ \cup {layerName},
                    !.executions[layerName] = @ + 1]
    ELSE [st EXCEPT !.executionPromises[layerName] = Rejected(LayerNotFound(layerName)),
                    !.settled = Append(@, layerName)]

\* const promise = executeLayer(layerName); executionPromises.set(layerName, promise):
\* the Promise.all of the call is given the promises its dependencies have in
\* the Map at that moment (undefined for the others); with none of them it is
\* through before anything else happens.
executeLayer(st, ls, deps, layerName) ==
    LET promises == {d \in Range(dependenciesOf(deps, layerName)) :
                        d \in DOMAIN st.executionPromises}
        called == [st EXCEPT !.executionPromises = @ @@ (layerName :> Pending)]
    IN IF promises = {}
       THEN beginLayer(called, ls, layerName)
       ELSE [called EXCEPT !.awaited = @ @@ (layerName :> promises)]

\* concurrencyManager of the first definition (l.443-461): the for loop from its
\* k-th layer up to its next await Promise.race, or to its end.
RECURSIVE concurrencyManager(_, _, _, _, _, _)
concurrencyManager(st, ls, deps, sorted, k, limit) ==
    IF k > Len(sorted) THEN [st |-> st, cursor |-> k]
    ELSE IF Cardinality(st.executingTasks) < limit
         THEN LET called == executeLayer(st, ls, deps, sorted[k])
              IN concurrencyManager(
                     [called EXCEPT !.executingTasks = @ \cup {sorted[k]}],
                     ls, deps, sorted, k + 1, limit)
         ELSE [st |-> st, cursor |-> k]

\* sortedLayers.map(layerName => executeLayer(layerName)) of the second
\* definition (l.1199-1203): every layer is called, from the k-th on.
RECURSIVE executeEveryLayer(_, _, _, _, _)
executeEveryLayer(st, ls, deps, sorted, k) ==
    IF k > Len(sorted) THEN [st |-> st, cursor |-> k]
    ELSE executeEveryLayer(executeLayer(st, ls, deps, sorted[k]), ls, deps, sorted, k + 1)

\* The first rejection among the promises executeLayersInOrder holds.
firstRejection(st) ==
    LET rejected == SelectSeq(st.settled,
                        LAMBDA n : st.executionPromises[n].state = "rejected")
    IN st.executionPromises[Head(rejected)].reason

\* build() after executeLayersInOrder returned (l.301-303): logMetrics throws
\* into the catch when this.metrics is empty, which it is unless a layer's
\* execute has returned.
buildOutcome(st) ==
    IF \E n \in DOMAIN st.executionPromises : st.executionPromises[n] = Fulfilled
    THEN [promise |-> "resolved", rejection |-> NoError]
    ELSE [promise |-> "rejected", rejection |-> NoMetricsError]

\* ------------------------------------------------------------------ actions
\* new Sequence(config), nothing added yet.
SequenceConstructed(c) ==
    /\ tasks = <<>>
    /\ config = c
    /\ dag = EmptyGraph
    /\ buildState = "idle"
    /\ buildError = NoError
    /\ mainSpan = [status |-> "UNSET", error |-> NoError]
    /\ sortedNodes = <<>>
    /\ nodeLevels = <<>>
    /\ level = 0
    /\ semaphore = [counter |-> 0, tasks |-> <<>>]
    /\ resumed = <<>>
    /\ pc = [n \in Ids |-> "new"]
    /\ status = [n \in Ids |-> "unset"]
    /\ artifact = [n \in Ids |-> Undefined]
    /\ metrics = [n \in Ids |-> NoMetrics]
    /\ attempts = [n \in Ids |-> 0]
    /\ invocations = [n \in Ids |-> 0]
    /\ args = [n \in Ids |-> <<>>]
    /\ startTime = [n \in Ids |-> 0]
    /\ now = 0
    /\ builds = 0
    /\ waitOrder = <<>>
    /\ emitted = [n \in Ids |-> <<>>]
    /\ span = [n \in Ids |-> NoSpan]

Constructed(c) == SequenceConstructed(c) /\ NoBuilder

\* new Sequence({maxConcurrency: K}).
Init == \E k \in 1..MaxK : Constructed([maxConcurrency |-> k])

\* new Sequence({verbose: true}): maxConcurrency left out.
InitDefault == Constructed([verbose |-> TRUE])

\* Sequence.addLayer (l.687-699): the descriptor is copied and pushed.
addLayerDelayed(name, dependsOn, retries, retryDelay, onError, priority) ==
    /\ tasks' = Append(tasks, [id |-> name, dependencies |-> dependsOn,
                               retryCount |-> retries, retryDelay |-> retryDelay,
                               onError |-> onError, priority |-> priority])
    /\ UNCHANGED <<builderVars, span, config, dag, buildState, buildError, mainSpan, sortedNodes,
                   nodeLevels, level, semaphore, resumed, runVars, now, builds,
                   waitOrder, emitted>>

\* addLayer of a descriptor without retryDelay, which then counts as 0 (l.222).
addLayer(name, dependsOn, retries, onError, priority) ==
    addLayerDelayed(name, dependsOn, retries, 0, onError, priority)

\* addLayer with a well-formed descriptor: a new id, dependencies among the
\* layers added before it, any retry and error policy.
AddLayer ==
    /\ buildState = "idle"
    /\ Len(tasks) < MaxTasks
    /\ LET used == usedIds(tasks) IN
       \E dependsOn \in {d \in DepLists : Range(d) \subseteq used},
          retries \in 0..MaxRetries, onError \in OnErrors :
            addLayer(freshId(tasks), dependsOn, retries, onError, 0)

\* addLayer with any descriptor: an id in use or a new one, dependencies on any
\* ids (added before it, after it, or never), any priority; default policies.
AddAnyLayer ==
    /\ buildState = "idle"
    /\ Len(tasks) < MaxTasks
    /\ \E name \in usedIds(tasks) \cup {freshId(tasks)}, dependsOn \in DepLists,
          priority \in 0..MaxPriority :
            addLayer(name, dependsOn, 0, "continue", priority)

\* The dependency lists over the ids in S.
depListsOver(S) == {d \in UNION {[1..n -> S] : n \in 0..MaxDeps} :
                       \A i, j \in DOMAIN d : i # j => d[i] # d[j]}

\* addLayer with a well-formed descriptor that has a priority: a new id,
\* dependencies among the layers added before it, no retry, onError left out.
addPriorityLayer(maxTasks, maxPriority) ==
    /\ buildState = "idle"
    /\ Len(tasks) < maxTasks
    /\ \E dependsOn \in depListsOver(usedIds(tasks)), priority \in 0..maxPriority :
          addLayer(freshId(tasks), dependsOn, 0, "continue", priority)

AddPriorityLayer == addPriorityLayer(MaxTasks, MaxPriority)

\* addLayer with a well-formed descriptor that has retries and a retryDelay.
AddRetryLayer ==
    /\ buildState = "idle"
    /\ Len(tasks) < MaxRetryTasks
    /\ \E dependsOn \in depListsOver(usedIds(tasks)), retries \in 0..MaxRetries,
          retryDelay \in 0..MaxDelay, onError \in OnErrors :
            addLayerDelayed(freshId(tasks), dependsOn, retries, retryDelay, onError, 0)

AddPlanLayer == addPriorityLayer(MaxPlanTasks, MaxPlanPriority)

\* Sequence.build (l.701-742) up to its first suspension: the graph is built and
\* sorted, and executeTasksWithConcurrencyLimit launches level 0.
build ==
    /\ builds' = builds + 1
    /\ LET a == addTasks(dag, tasks, 1)
           t == topologicalSortWithPriority(a.graph, tasks)
       IN IF a.error # NoError
          THEN /\ dag' = a.graph
               /\ buildState' = "rejected"
               /\ buildError' = a.error
               /\ pc' = [n \in Ids |-> "new"]
               /\ UNCHANGED <<mainSpan, sortedNodes, nodeLevels, level, semaphore,
                              resumed>>
          ELSE IF t.error # NoError
          THEN /\ dag' = t.graph
               /\ buildState' = "rejected"
               /\ buildError' = t.error
               /\ pc' = [n \in Ids |-> "new"]
               /\ UNCHANGED <<mainSpan, sortedNodes, nodeLevels, level, semaphore,
                              resumed>>
          ELSE LET lv == assignNodeLevels(t.graph, t.sorted, 1, <<>>)
                   sem == [counter |-> maxConcurrencyOf(config), tasks |-> <<>>]
                   r == IF 0 <= maxLevelOf(lv)
                        THEN launchAll(sem, [n \in Ids |-> "new"], <<>>,
                                       nodesAtLevel(t.sorted, lv, 0), 1)
                        ELSE [sem |-> sem, pc |-> [n \in Ids |-> "new"],
                              resumed |-> <<>>]
               IN /\ dag' = t.graph
                  /\ sortedNodes' = t.sorted
                  /\ nodeLevels' = lv
                  /\ level' = 0
                  /\ semaphore' = r.sem
                  /\ resumed' = r.resumed
                  /\ pc' = r.pc
                  /\ buildError' = NoError
                  /\ IF maxLevelOf(lv) < 0
                     THEN /\ buildState' = "resolved"
                          /\ mainSpan' = finishedSpan(metrics)
                     ELSE /\ buildState' = "running"
                          /\ UNCHANGED mainSpan
    /\ UNCHANGED <<builderVars, span, tasks, config, status, artifact, metrics, attempts,
                   invocations, args, startTime, now, waitOrder, emitted>>

\* The first call of build() on the Sequence.
Build ==
    /\ buildState = "idle"
    /\ build

\* build() called again on the same Sequence once the run before it is over:
\* this.dag and the task objects are the ones the run before left.
Rebuild ==
    /\ buildState = "resolved"
    /\ \A n \in Ids : pc[n] \in {"new", "done"}
    /\ builds < MaxBuilds
    /\ build

\* The launch resumed first runs on: it gathers the artifacts of its
\* dependencies (l.308-313) and enters executeTaskWithRetries, which calls the
\* action for the first time.
StartTask(n) ==
    /\ pc[n] = "granted"
    /\ resumed # <<>> /\ n = Head(resumed)
    /\ resumed' = Tail(resumed)
    /\ args' = [args EXCEPT ![n] = dependencyResults(n)]
    /\ attempts' = [attempts EXCEPT ![n] = 0]
    /\ \E t \in DateNow : now' = t /\ startTime' = [startTime EXCEPT ![n] = t]
    /\ emitted' = [emitted EXCEPT ![n] = Append(@, record("started", now'))]
    /\ invocations' = [invocations EXCEPT ![n] = @ + 1]
    /\ pc' = [pc EXCEPT ![n] = "running"]
    /\ span' = [span EXCEPT ![n] = NoSpan]
    /\ UNCHANGED <<builderVars, tasks, config, dag, buildState, buildError, mainSpan,
                   sortedNodes, nodeLevels, level, semaphore, status, artifact,
                   metrics, builds, waitOrder>>

\* The action returns (l.229-242), the artifact is stored (l.322), the permit
\* released (l.334), and the loop goes on when this was the level's last launch.
ActionReturns(n) ==
    /\ pc[n] = "running"
    /\ \E endTime \in DateNow :
          /\ now' = endTime
          /\ metrics' = [metrics EXCEPT ![n] =
                            [set |-> TRUE, startTime |-> startTime[n],
                             endTime |-> endTime, duration |-> endTime - startTime[n]]]
    /\ status' = [status EXCEPT ![n] = "success"]
    /\ emitted' = [emitted EXCEPT ![n] = Append(@, record("succeeded", now'))]
    /\ artifact' = [artifact EXCEPT ![n] = ActionResult(n, args[n])]
    /\ LET r == afterRelease(n) IN Advance(r.pc, r.sem, r.resumed, metrics')
    /\ startTime' = [startTime EXCEPT ![n] = 0]
    /\ span' = [span EXCEPT ![n] = [status |-> "OK", ends |-> @.ends + 1]]
    /\ UNCHANGED <<builderVars, tasks, config, dag, buildError, sortedNodes, nodeLevels,
                   attempts, invocations, args, builds, waitOrder>>

\* The failed attempt with task.status = "failed" (l.257) set before the test
\* of line 246: the task is marked failed although a retry follows.
ActionThrowsRetryMarked(n) ==
    /\ pc[n] = "running"
    /\ attempts[n] + 1 <= maxAttemptsOf(n)
    /\ now + retryDelayOf(n) <= MaxTime
    /\ attempts' = [attempts EXCEPT ![n] = @ + 1]
    /\ emitted' = [emitted EXCEPT ![n] = Append(@, record("attempt_failed", now))]
    /\ status' = [status EXCEPT ![n] = "failed"]
    /\ pc' = [pc EXCEPT ![n] = "sleeping"]
    /\ UNCHANGED <<builderVars, span, tasks, config, dag, buildState, buildError,
                   mainSpan, sortedNodes, nodeLevels, level, semaphore, resumed,
                   artifact, metrics, invocations, args, startTime, now, builds,
                   waitOrder>>

\* The action throws (l.243-272): a retry is left, and the task sleeps retryDelay.
ActionThrowsRetry(n) ==
    /\ pc[n] = "running"
    /\ attempts[n] + 1 <= maxAttemptsOf(n)
    /\ now + retryDelayOf(n) <= MaxTime
    /\ attempts' = [attempts EXCEPT ![n] = @ + 1]
    /\ emitted' = [emitted EXCEPT ![n] = Append(@, record("attempt_failed", now))]
    /\ pc' = [pc EXCEPT ![n] = "sleeping"]
    /\ UNCHANGED <<builderVars, span, tasks, config, dag, buildState, buildError, mainSpan,
                   sortedNodes, nodeLevels, level, semaphore, resumed, status,
                   artifact, metrics, invocations, args, startTime, now, builds,
                   waitOrder>>

\* The action throws and no retry is left: the task is failed (l.246-258); with
\* onError "abort" the launch throws (l.324-327), Promise.all rejects and build's
\* catch (l.727-737) records the error; otherwise the artifact is null (l.330).
ActionThrowsFinal(n) ==
    /\ pc[n] = "running"
    /\ attempts[n] + 1 > maxAttemptsOf(n)
    /\ attempts' = [attempts EXCEPT ![n] = @ + 1]
    /\ emitted' = [emitted EXCEPT ![n] =
                      @ \o <<record("attempt_failed", now), record("failed", now)>>]
    /\ status' = [status EXCEPT ![n] = "failed"]
    /\ LET r == afterRelease(n) IN
       IF abortsOnError(n)
       THEN /\ pc' = r.pc
            /\ semaphore' = r.sem
            /\ resumed' = r.resumed
            /\ IF buildState = "running"
               THEN /\ buildState' = "resolved"
                    /\ mainSpan' = [status |-> "ERROR", error |-> AbortError(n)]
               ELSE UNCHANGED <<buildState, mainSpan>>
            /\ UNCHANGED <<artifact, level>>
       ELSE /\ artifact' = [artifact EXCEPT ![n] = Null]
            /\ Advance(r.pc, r.sem, r.resumed, metrics)
    /\ startTime' = [startTime EXCEPT ![n] = 0]
    /\ span' = [span EXCEPT ![n] = [status |-> "ERROR", ends |-> @.ends + 1]]
    /\ UNCHANGED <<builderVars, tasks, config, dag, buildError, sortedNodes, nodeLevels,
                   metrics, invocations, args, now, builds, waitOrder>>

\* The retry without the delay of line 272: the next attempt starts at once.
RetryTaskAtOnce(n) ==
    /\ pc[n] = "sleeping"
    /\ \E t \in DateNow :
          /\ now' = t
          /\ startTime' = [startTime EXCEPT ![n] = t]
          /\ emitted' = [emitted EXCEPT ![n] = Append(@, record("started", t))]
    /\ invocations' = [invocations EXCEPT ![n] = @ + 1]
    /\ pc' = [pc EXCEPT ![n] = "running"]
    /\ span' = [span EXCEPT ![n] = [@ EXCEPT !.ends = @ + 1]]
    /\ UNCHANGED <<builderVars, tasks, config, dag, buildState, buildError, mainSpan,
                   sortedNodes, nodeLevels, level, semaphore, resumed, status,
                   artifact, metrics, attempts, args, builds, waitOrder>>

\* delay(retryDelay) is over: the while loop calls the action again (l.224-229).
RetryTask(n) ==
    /\ pc[n] = "sleeping"
    /\ \E t \in DateNowAfter(timerOf(n)) :
          /\ now' = t
          /\ startTime' = [startTime EXCEPT ![n] = t]
          /\ emitted' = [emitted EXCEPT ![n] = Append(@, record("started", t))]
    /\ invocations' = [invocations EXCEPT ![n] = @ + 1]
    /\ pc' = [pc EXCEPT ![n] = "running"]
    /\ span' = [span EXCEPT ![n] = [@ EXCEPT !.ends = @ + 1]]
    /\ UNCHANGED <<builderVars, tasks, config, dag, buildState, buildError, mainSpan,
                   sortedNodes, nodeLevels, level, semaphore, resumed, status,
                   artifact, metrics, attempts, args, builds, waitOrder>>

Next ==
    \/ AddLayer
    \/ Build
    \/ \E n \in Ids : StartTask(n)
    \/ \E n \in Ids : ActionReturns(n)
    \/ \E n \in Ids : ActionThrowsRetry(n)
    \/ \E n \in Ids : ActionThrowsFinal(n)
    \/ \E n \in Ids : RetryTask(n)

Spec == Init /\ [][Next]_vars

\* The same program fed any descriptors, built with the default concurrency.
NextBuild ==
    \/ AddAnyLayer
    \/ Build
    \/ \E n \in Ids : StartTask(n)
    \/ \E n \in Ids : ActionReturns(n)
    \/ \E n \in Ids : ActionThrowsFinal(n)

SpecBuild == InitDefault /\ [][NextBuild]_vars

\* Layers with retries and retry delays.
NextRetry ==
    \/ AddRetryLayer
    \/ Build
    \/ \E n \in Ids : StartTask(n)
    \/ \E n \in Ids : ActionReturns(n)
    \/ \E n \in Ids : ActionThrowsRetry(n)
    \/ \E n \in Ids : ActionThrowsFinal(n)
    \/ \E n \in Ids : RetryTask(n)

SpecRetry == Init /\ [][NextRetry]_vars

\* Every launch resumed runs on, every call of an action returns or throws,
\* every retry delay ends.
Fairness ==
    \A n \in Ids :
        /\ WF_vars(StartTask(n))
        /\ WF_vars(ActionReturns(n) \/ ActionThrowsRetry(n) \/ ActionThrowsFinal(n))
        /\ WF_vars(RetryTask(n))

SpecLive == Init /\ [][NextRetry]_vars /\ Fairness

\* Prioritised layers run one at a time (maxConcurrency 1), every action returning.
InitPlan == Constructed([maxConcurrency |-> 1])

NextPlan ==
    \/ AddPlanLayer
    \/ Build
    \/ \E n \in Ids : StartTask(n)
    \/ \E n \in Ids : ActionReturns(n)

SpecPlan == InitPlan /\ [][NextPlan]_vars

\* build() called up to MaxBuilds times on one Sequence, every action returning.
NextRerun ==
    \/ AddPriorityLayer
    \/ Build
    \/ Rebuild
    \/ \E n \in Ids : StartTask(n)
    \/ \E n \in Ids : ActionReturns(n)

SpecRerun == Init /\ [][NextRerun]_vars

\* ------------------------------------------------- the Semaphore on its own
\* new Semaphore(k), used by callers that acquire, hold and release again and
\* again: pc is "waiting" in the queue, "granted" once acquire() has resolved,
\* "running" while the caller holds the permit, "done" after release().
SemaphoreConstructed(k) ==
    /\ tasks = <<>>
    /\ config = [maxConcurrency |-> k]
    /\ dag = EmptyGraph
    /\ buildState = "idle"
    /\ buildError = NoError
    /\ mainSpan = [status |-> "UNSET", error |-> NoError]
    /\ sortedNodes = <<>>
    /\ nodeLevels = <<>>
    /\ level = 0
    /\ semaphore = [counter |-> k, tasks |-> <<>>]
    /\ resumed = <<>>
    /\ pc = [n \in Ids |-> "new"]
    /\ status = [n \in Ids |-> "unset"]
    /\ artifact = [n \in Ids |-> Undefined]
    /\ metrics = [n \in Ids |-> NoMetrics]
    /\ attempts = [n \in Ids |-> 0]
    /\ invocations = [n \in Ids |-> 0]
    /\ args = [n \in Ids |-> <<>>]
    /\ startTime = [n \in Ids |-> 0]
    /\ now = 0
    /\ builds = 0
    /\ waitOrder = <<>>
    /\ emitted = [n \in Ids |-> <<>>]
    /\ span = [n \in Ids |-> NoSpan]
    /\ NoBuilder

InitSemaphore == \E k \in 1..MaxK : SemaphoreConstructed(k)

semaphoreFrame ==
    UNCHANGED <<builderVars, span, tasks, config, dag, buildState, buildError, mainSpan, sortedNodes,
                nodeLevels, level, status, artifact, metrics, attempts,
                invocations, args, startTime, now, builds, emitted>>

\* await semaphore.acquire() called by n.
Acquire(n) ==
    /\ pc[n] \in {"new", "done"}
    /\ LET r == acquire(semaphore, n) IN
          /\ semaphore' = r.sem
          /\ pc' = [pc EXCEPT ![n] = IF r.granted THEN "granted" ELSE "waiting"]
          /\ resumed' = IF r.granted THEN Append(resumed, n) ELSE resumed
          /\ waitOrder' = IF r.granted THEN waitOrder ELSE Append(waitOrder, n)
    /\ semaphoreFrame

\* The caller whose acquire() resolved first runs on.
Resume(n) ==
    /\ pc[n] = "granted"
    /\ resumed # <<>> /\ n = Head(resumed)
    /\ resumed' = Tail(resumed)
    /\ pc' = [pc EXCEPT ![n] = "running"]
    /\ UNCHANGED <<semaphore, waitOrder>>
    /\ semaphoreFrame

\* semaphore.release() called by n, which holds a permit.
Release(n) ==
    /\ pc[n] = "running"
    /\ LET r == afterRelease(n) IN
          /\ semaphore' = r.sem
          /\ pc' = r.pc
          /\ resumed' = r.resumed
          /\ waitOrder' = SelectSeq(waitOrder, LAMBDA m : pc[m] = r.pc[m])
    /\ semaphoreFrame

NextSemaphore ==
    \/ \E n \in Ids : Acquire(n)
    \/ \E n \in Ids : Resume(n)
    \/ \E n \in Ids : Release(n)

SpecSemaphore == InitSemaphore /\ [][NextSemaphore]_vars

\* ------------------------------ AdvancedSequenceBuilder, in-memory mode
\* new AdvancedSequenceBuilder({useRedis: false, concurrency: k}) of the d-th
\* definition of the class.
BuilderConstructed(d, k) ==
    /\ definition = d
    /\ concurrency = k
    /\ layers = <<>>
    /\ dependencies = <<>>
    /\ removed = {}
    /\ buildPromise = "idle"
    /\ buildRejection = NoError
    /\ sortedLayers = <<>>
    /\ cursor = 1
    /\ executionPromises = <<>>
    /\ awaited = <<>>
    /\ executingTasks = {}
    /\ executing = {}
    /\ executions = [n \in LayerNames |-> 0]
    /\ settled = <<>>

InitBuilder ==
    /\ SequenceConstructed([verbose |-> TRUE])
    /\ \E d \in {1, 2}, k \in 1..MaxK : BuilderConstructed(d, k)

\* addLayer(config) (l.243-249): a layer with a new name, with or without a
\* dependsOn, which may name any layer, added or not.
AdvancedAddLayer ==
    /\ buildPromise = "idle"
    /\ Len(layers) + Cardinality(removed) < MaxLayers
    /\ LET name == IdOrder[Len(layers) + Cardinality(removed) + 1] IN
       /\ layers' = Append(layers, name)
       /\ \/ UNCHANGED dependencies
          \/ \E dependsOn \in DependsOnLists :
                dependencies' = dependencies @@ (name :> dependsOn)
    /\ UNCHANGED <<sequenceVars, definition, concurrency, removed, buildPromise,
                   buildRejection, sortedLayers, cursor, executionPromises,
                   awaited, executingTasks, executing, executions, settled>>

\* removeLayer(name) (l.251-255) of a layer that was added.
AdvancedRemoveLayer ==
    /\ buildPromise = "idle"
    /\ Cardinality(removed) < MaxRemovals
    /\ \E name \in Range(layers) :
          /\ layers' = SelectSeq(layers, LAMBDA n : n # name)
          /\ dependencies' = [n \in DOMAIN dependencies \ {name} |-> dependencies[n]]
          /\ removed' = removed \cup {name}
    /\ UNCHANGED <<sequenceVars, definition, concurrency, buildPromise,
                   buildRejection, sortedLayers, cursor, executionPromises,
                   awaited, executingTasks, executing, executions, settled>>

\* The locals of executeLayersInOrder take the values of the record st.
executionBecomes(st) ==
    /\ executionPromises' = st.executionPromises
    /\ awaited' = st.awaited
    /\ executingTasks' = st.executingTasks
    /\ executing' = st.executing
    /\ executions' = st.executions
    /\ settled' = st.settled

\* build() (l.287-316, l.1062-1087) up to the first await of
\* executeLayersInOrder that does not resolve at once.
AdvancedBuild ==
    /\ buildPromise = "idle"
    /\ buildPromise' = "pending"
    /\ LET sorted == topologicalSort(layers, dependencies)
           r == IF definition = 1
                THEN concurrencyManager(execution, layers, dependencies, sorted, 1,
                                        concurrency)
                ELSE executeEveryLayer(execution, layers, dependencies, sorted, 1)
       IN /\ sortedLayers' = sorted
          /\ cursor' = r.cursor
          /\ executionBecomes(r.st)
    /\ UNCHANGED <<sequenceVars, definition, concurrency, layers, dependencies,
                   removed, buildRejection>>

\* layer.execute(...args) returns: the promise of executeLayer is fulfilled.
ExecuteReturns(name) ==
    /\ name \in executing
    /\ executing' = executing \ {name}
    /\ executionPromises' = [executionPromises EXCEPT ![name] = Fulfilled]
    /\ settled' = Append(settled, name)
    /\ UNCHANGED <<sequenceVars, definition, concurrency, layers, dependencies,
                   removed, buildPromise, buildRejection, sortedLayers, cursor,
                   awaited, executingTasks, executions>>

\* layer.execute(...args) throws: the promise of executeLayer is rejected.
ExecuteThrows(name) ==
    /\ name \in executing
    /\ executing' = executing \ {name}
    /\ executionPromises' = [executionPromises EXCEPT ![name] = Rejected(ExecuteError(name))]
    /\ settled' = Append(settled, name)
    /\ UNCHANGED <<sequenceVars, definition, concurrency, layers, dependencies,
                   removed, buildPromise, buildRejection, sortedLayers, cursor,
                   awaited, executingTasks, executions>>

\* The Promise.all of executeLayer(name) settles (l.408-410, l.1176-1177): it
\* rejects with the first rejection among its promises, and the call with it,
\* or all are fulfilled and the call goes on.
LayerResumes(name) ==
    /\ name \in DOMAIN awaited
    /\ LET st == [execution EXCEPT
                     !.awaited = [n \in DOMAIN awaited \ {name} |-> awaited[n]]]
           rejected == SelectSeq(settled, LAMBDA n :
                           n \in awaited[name] /\ executionPromises[n].state = "rejected")
       IN \/ /\ rejected # <<>>
             /\ executionBecomes(
                    [st EXCEPT !.executionPromises[name] =
                                   Rejected(executionPromises[Head(rejected)].reason),
                               !.settled = Append(@, name)])
          \/ /\ \A n \in awaited[name] : executionPromises[n] = Fulfilled
             /\ executionBecomes(beginLayer(st, layers, name))
    /\ UNCHANGED <<sequenceVars, definition, concurrency, layers, dependencies,
                   removed, buildPromise, buildRejection, sortedLayers, cursor>>

\* await Promise.race(layerPromises) of the first definition settles (l.459) as
\* the promise settled first did: rejected, it throws out of build's try;
\* fulfilled, the for loop goes on with the layer after the one it was at.
ManagerResumes ==
    /\ buildPromise = "pending"
    /\ definition = 1
    /\ cursor <= Len(sortedLayers)
    /\ settled # <<>>
    /\ IF executionPromises[Head(settled)].state = "rejected"
       THEN /\ buildPromise' = "rejected"
            /\ buildRejection' = executionPromises[Head(settled)].reason
            /\ UNCHANGED <<cursor, executionPromises, awaited, executingTasks,
                           executing, executions, settled>>
       ELSE LET r == concurrencyManager(execution, layers, dependencies,
                                        sortedLayers, cursor + 1, concurrency)
            IN /\ cursor' = r.cursor
               /\ executionBecomes(r.st)
               /\ UNCHANGED <<buildPromise, buildRejection>>
    /\ UNCHANGED <<sequenceVars, definition, concurrency, layers, dependencies,
                   removed, sortedLayers>>

\* await Promise.all(layerPromises) settles (l.464, l.1205) and build() with it
\* (l.301-309): rejected by the first rejection, or every promise is fulfilled.
BuildSettles ==
    /\ buildPromise = "pending"
    /\ cursor > Len(sortedLayers)
    /\ \/ /\ \E n \in DOMAIN executionPromises : executionPromises[n].state = "rejected"
          /\ buildPromise' = "rejected"
          /\ buildRejection' = firstRejection(execution)
       \/ /\ \A n \in DOMAIN executionPromises : executionPromises[n] = Fulfilled
          /\ buildPromise' = buildOutcome(execution).promise
          /\ buildRejection' = buildOutcome(execution).rejection
    /\ UNCHANGED <<sequenceVars, definition, concurrency, layers, dependencies,
                   removed, sortedLayers, cursor, executionPromises, awaited,
                   executingTasks, executing, executions, settled>>

NextBuilder ==
    \/ AdvancedAddLayer
    \/ AdvancedRemoveLayer
    \/ AdvancedBuild
    \/ \E name \in LayerNames : ExecuteReturns(name)
    \/ \E name \in LayerNames : ExecuteThrows(name)
    \/ \E name \in LayerNames : LayerResumes(name)
    \/ ManagerResumes
    \/ BuildSettles

SpecBuilder == InitBuilder /\ [][NextBuilder]_vars

\* ------------------------------------------------------------- properties
Nodes == DOMAIN nodeLevels

parentsOf(n) == Range(dag.nodes[n].dependencies)

RECURSIVE ancestorsOf(_)
ancestorsOf(n) == parentsOf(n) \cup UNION {ancestorsOf(p) : p \in parentsOf(n)}

inFlight(n) == pc[n] \in {"granted", "running", "sleeping"}

\* A task with onError "abort" has failed after its last attempt.
abortDecidedBy(a) == status[a] = "failed" /\ taskOf(a).onError = "abort"
abortDecided == \E a \in Nodes : abortDecidedBy(a)

noActionInvoked == \A n \in Ids : invocations[n] = 0

\* C1: for every dependency edge p -> c, the action of c is first called only
\* when p has ended (no attempt of p in flight or to come), and the recorded
\* endTime of p is at most the recorded startTime of c (and the start of any
\* attempt of c in flight).
C1_ParentEndsBeforeChildStarts ==
    \A c \in Nodes : \A p \in parentsOf(c) :
        /\ invocations[c] > 0 => pc[p] = "done" /\ status[p] # "unset"
        /\ metrics[p].set /\ metrics[c].set
              => metrics[p].endTime <= metrics[c].startTime
        /\ metrics[p].set /\ pc[c] = "running" => metrics[p].endTime <= startTime[c]

\* A parent that needed a retry ended strictly before its child started.
C1_Witness ==
    \E c \in Nodes : \E p \in parentsOf(c) :
        /\ invocations[p] = 2
        /\ metrics[p].set /\ metrics[c].set
        /\ metrics[p].endTime < metrics[c].startTime

\* C2: at most K launches hold a permit and have not ended, K = maxConcurrency.
C2_RunningAtMostK ==
    Cardinality({n \in Ids : inFlight(n)}) <= maxConcurrencyOf(config)

\* K launches are under way while another one waits for a permit.
C2_Witness ==
    /\ Cardinality({n \in Ids : pc[n] = "running"}) = maxConcurrencyOf(config)
    /\ maxConcurrencyOf(config) = 2
    /\ \E n \in Ids : pc[n] = "waiting"

\* C3: once a task with onError "abort" has failed, the promise of build() is
\* rejected with an error that names such a task, and is not resolved.
C3_AbortRejectsBuild ==
    abortDecided =>
        /\ buildState = "rejected"
        /\ buildError.kind = "Abort"
        /\ abortDecidedBy(buildError.task)

\* C4: after a task with onError "abort" has failed at level l, no task of a
\* higher level is launched or called; a task of level l is not cut short: it
\* ends with a status of its own, and while its action runs it can still
\* return or throw.
C4_AbortStopsLaterLevels ==
    \A a \in Nodes : abortDecidedBy(a) =>
        \A n \in Nodes :
            /\ nodeLevels[n] > nodeLevels[a] => pc[n] = "new" /\ invocations[n] = 0
            /\ nodeLevels[n] = nodeLevels[a] /\ pc[n] = "done" => status[n] # "unset"
            /\ nodeLevels[n] = nodeLevels[a] /\ pc[n] = "running"
                  => /\ ENABLED ActionReturns(n)
                     /\ ENABLED (ActionThrowsRetry(n) \/ ActionThrowsFinal(n))

\* An abort is decided while a task of the same level is running and a task of
\* a higher level exists.
C4_Witness ==
    \E a \in Nodes : \E n \in Nodes : \E m \in Nodes :
        /\ abortDecidedBy(a)
        /\ n # a /\ nodeLevels[n] = nodeLevels[a] /\ pc[n] = "running"
        /\ nodeLevels[m] > nodeLevels[a]

\* C5: once an abort is decided, the action of a task that was never called
\* is not called.
C5_NoInvocationAfterAbort ==
    [][abortDecided => \A n \in Ids : invocations[n] = 0 => invocations'[n] = 0]_vars

\* C6: every call of an action gets, per declared dependency, the value the
\* dependency's action returned when it succeeded and null when it did not; and
\* a run in which no abort was decided ends only after every task was called.
C6_FailedParentsGiveNull ==
    /\ \A c \in Nodes : invocations[c] > 0 =>
          LET deps == dag.nodes[c].dependencies IN
          args[c] = [i \in DOMAIN deps |->
                        IF status[deps[i]] = "success"
                        THEN ActionResult(deps[i], args[deps[i]])
                        ELSE Null]
    /\ buildState = "resolved" /\ ~abortDecided
          => \A n \in Nodes : invocations[n] >= 1

\* A child of a failed and a succeeded parent was called.
C6_Witness ==
    \E c \in Nodes : \E p \in parentsOf(c) : \E q \in parentsOf(c) :
        /\ invocations[c] > 0
        /\ status[p] = "failed"
        /\ status[q] = "success"

\* C7 as stated: a succeeded task has only succeeded ancestors.
C7_SuccessPrefixClosed ==
    \A c \in Nodes : status[c] = "success" =>
        \A a \in ancestorsOf(c) : status[a] = "success"

\* C7 amended: every ancestor of a succeeded task has ended, either succeeded
\* or failed with an onError other than "abort".
C7_AncestorsTerminal ==
    \A c \in Nodes : status[c] = "success" =>
        \A a \in ancestorsOf(c) :
            /\ pc[a] = "done"
            /\ \/ status[a] = "success"
               \/ status[a] = "failed" /\ taskOf(a).onError # "abort"

\* A task succeeded although its grandparent failed.
C7_Witness ==
    \E c \in Nodes : \E a \in ancestorsOf(c) :
        /\ status[c] = "success"
        /\ status[a] = "failed"
        /\ a \notin parentsOf(c)

\* ------------------------------------------------- properties of the build
hasDuplicateIds(ts) == \E i, j \in DOMAIN ts : i # j /\ ts[i].id = ts[j].id

\* Some descriptor lists a dependency that no descriptor of the sequence has as id.
missingDependencies(ts) ==
    {d \in UNION {Range(ts[i].dependencies) : i \in DOMAIN ts} : d \notin usedIds(ts)}

\* Every dependency that names a descriptor names one added before its child.
parentsFirst(ts) ==
    \A i \in DOMAIN ts : \A d \in Range(ts[i].dependencies) :
        d \in usedIds(ts) => \E j \in 1..(i - 1) : ts[j].id = d

\* C8: with two descriptors of the same id, build() fails and calls no action.
\* (The code has no error for a duplicate id, so the formula asks only for a
\* rejection, whatever its error.)
C8_DuplicateIdRejected ==
    buildState # "idle" /\ hasDuplicateIds(tasks)
        => buildState = "rejected" /\ noActionInvoked

validDescriptors(ts) ==
    /\ ~hasDuplicateIds(ts)
    /\ missingDependencies(ts) = {}
    /\ \E rank \in [usedIds(ts) -> 1..Len(ts)] :
          \A i \in DOMAIN ts : \A d \in Range(ts[i].dependencies) :
              rank[d] < rank[ts[i].id]

declaredEdges(ts) ==
    UNION {{<<d, ts[i].id>> : d \in Range(ts[i].dependencies)} : i \in DOMAIN ts}

permutationsOf(n) == {f \in [1..n -> 1..n] : \A i, j \in 1..n : i # j => f[i] # f[j]}

graphEdges(g) ==
    UNION {{<<p, c>> : p \in Range(g.nodes[c].dependencies)} : c \in DOMAIN g.nodes}

\* C10: for valid descriptors the build succeeds, and so does the build of
\* every permutation of them, each with the declared nodes and edges.
C10_AnyOrderBuilds ==
    buildState # "idle" /\ validDescriptors(tasks) =>
        /\ buildState # "rejected"
        /\ \A f \in permutationsOf(Len(tasks)) :
              LET ts == [i \in 1..Len(tasks) |-> tasks[f[i]]]
                  a == addTasks(EmptyGraph, ts, 1)
                  t == topologicalSortWithPriority(a.graph, ts)
              IN /\ a.error = NoError
                 /\ t.error = NoError
                 /\ DOMAIN a.graph.nodes = usedIds(tasks)
                 /\ graphEdges(a.graph) = declaredEdges(tasks)

\* --------------------------------------------------- properties of the plan
\* The place of node n in the planner's order.
pos(n) == CHOOSE i \in DOMAIN sortedNodes : sortedNodes[i] = n

planned == buildState \in {"running", "resolved"}

\* The declared dependencies all name descriptors and contain a cycle.
declaredCycle(ts) ==
    /\ missingDependencies(ts) = {}
    /\ ~ \E rank \in [usedIds(ts) -> 1..Len(ts)] :
            \A i \in DOMAIN ts : \A d \in Range(ts[i].dependencies) :
                rank[d] < rank[ts[i].id]

acyclicGraph(g) ==
    \E rank \in [DOMAIN g.nodes -> 1..Cardinality(DOMAIN g.nodes)] :
        \A e \in graphEdges(g) : rank[e[1]] < rank[e[2]]

\* C11: when the declared dependencies contain a cycle, build() is rejected
\* with the cycle error and no action is ever called.
C11_CycleRejected ==
    buildState # "idle" /\ declaredCycle(tasks) =>
        /\ buildState = "rejected"
        /\ buildError = CycleError
        /\ noActionInvoked

\* C12: the planner's order of a first build whose graph is acyclic holds
\* every node exactly once, and every node after each of its dependencies.
C12_OrderRespectsDependencies ==
    buildState # "idle" /\ buildError.kind # "DependencyNotFound" /\ acyclicGraph(dag) =>
        /\ buildState # "rejected"
        /\ Len(sortedNodes) = Cardinality(DOMAIN dag.nodes)
        /\ Range(sortedNodes) = DOMAIN dag.nodes
        /\ \A c \in DOMAIN dag.nodes : \A p \in parentsOf(c) : pos(p) < pos(c)

\* A child of higher priority than its parent is planned after the parent and
\* before a root of lower priority.
C12_Witness ==
    /\ planned
    /\ \E c \in Nodes : \E p \in parentsOf(c) : \E r \in Nodes :
          /\ priorityOf(dag, tasks, c) > priorityOf(dag, tasks, p)
          /\ priorityOf(dag, tasks, c) > priorityOf(dag, tasks, r)
          /\ parentsOf(r) = {}
          /\ pos(p) < pos(c) /\ pos(c) < pos(r)

\* The dependency paths that end in n, as sequences of nodes.
pathsTo(n) ==
    {ch \in UNION {[1..k -> DOMAIN dag.nodes] : k \in 1..Cardinality(DOMAIN dag.nodes)} :
        /\ ch[Len(ch)] = n
        /\ \A i \in 1..(Len(ch) - 1) : ch[i] \in parentsOf(ch[i + 1])}

longestPathTo(n) == Max({Len(ch) - 1 : ch \in pathsTo(n)})

\* C13: every node of the plan has a level, a natural number: 0 without
\* dependencies, else one more than the highest level of a dependency, which
\* is the length of the longest dependency path that ends in the node.
C13_LevelIsLongestPath ==
    planned =>
        /\ DOMAIN nodeLevels = DOMAIN dag.nodes
        /\ \A n \in DOMAIN dag.nodes :
              /\ nodeLevels[n] \in Nat
              /\ parentsOf(n) = {} => nodeLevels[n] = 0
              /\ parentsOf(n) # {} =>
                    nodeLevels[n] = 1 + Max({nodeLevels[p] : p \in parentsOf(n)})
              /\ nodeLevels[n] = longestPathTo(n)

\* A node at level 2 whose first dependency is a root.
C13_Witness ==
    /\ planned
    /\ \E n \in Nodes :
          /\ nodeLevels[n] = 2
          /\ Len(dag.nodes[n].dependencies) = 2
          /\ nodeLevels[dag.nodes[n].dependencies[1]] = 0

\* C14: a second build() of the same descriptors plans what the first planned:
\* the same order and the same levels.
C14_SamePlanTwice ==
    [][builds' > builds /\ builds >= 1
          => sortedNodes' = sortedNodes /\ nodeLevels' = nodeLevels]_vars

\* The value a pure action of task id returns in a run in which every action
\* returns: a term over the declared dependencies.
RECURSIVE pureArtifact(_)
pureArtifact(id) ==
    LET i == CHOOSE j \in DOMAIN tasks : tasks[j].id = id
        deps == tasks[i].dependencies
    IN ActionResult(id, [k \in DOMAIN deps |-> pureArtifact(deps[k])])

\* C15: when a run is over, the first or a later one on the same Sequence,
\* every task was called once in each run and has the artifact its pure action
\* gives for the artifacts of its dependencies.
C15_RerunSameArtifacts ==
    buildState = "resolved" =>
        \A n \in usedIds(tasks) :
            /\ invocations[n] = builds
            /\ artifact[n] = pureArtifact(n)

\* ------------------------------------------------ properties of priorities
invoked(n) == invocations[n] > 0

isRoot(n) == n \in Nodes /\ parentsOf(n) = {}

\* The place of the first descriptor with the id of node n.
addedAt(n) == dag.nodes[n].task

waitsBefore(n, m) ==
    \E i, j \in DOMAIN semaphore.tasks :
        i < j /\ semaphore.tasks[i] = n /\ semaphore.tasks[j] = m

\* C16: with K = 1, among the tasks of one level a task that asked for its
\* permit or was called earlier has a priority at least as high: the holder of
\* the permit over the waiters, an earlier waiter over a later one, a task
\* called over one not called yet.
C16_LevelLaunchByPriority ==
    \A n \in Nodes : \A m \in Nodes :
        n # m /\ nodeLevels[n] = nodeLevels[m] =>
            /\ invoked(n) /\ ~invoked(m)
                  => priorityOf(dag, tasks, n) >= priorityOf(dag, tasks, m)
            /\ inFlight(n) /\ pc[m] = "waiting"
                  => priorityOf(dag, tasks, n) >= priorityOf(dag, tasks, m)
            /\ waitsBefore(n, m)
                  => priorityOf(dag, tasks, n) >= priorityOf(dag, tasks, m)

\* Root n is launched before root m: higher priority, or the same and added earlier.
launchedBefore(n, m) ==
    \/ priorityOf(dag, tasks, n) > priorityOf(dag, tasks, m)
    \/ priorityOf(dag, tasks, n) = priorityOf(dag, tasks, m) /\ addedAt(n) < addedAt(m)

\* C17: with K = 1, a root that was called while another root was not, or that
\* waits ahead of it, has the higher priority, or the same and was added earlier.
C17_RootsByPriority ==
    \A n \in Ids : \A m \in Ids :
        n # m /\ isRoot(n) /\ isRoot(m) =>
            /\ invoked(n) /\ ~invoked(m) => launchedBefore(n, m)
            /\ waitsBefore(n, m) => launchedBefore(n, m)

\* Three roots added with priorities low, high, middle, and a task that is not
\* a root: the second root has ended, the third runs, the first waits.
C17_Witness ==
    \E a \in Ids : \E b \in Ids : \E c \in Ids : \E d \in Nodes :
        /\ isRoot(a) /\ isRoot(b) /\ isRoot(c) /\ ~isRoot(d)
        /\ addedAt(a) < addedAt(b) /\ addedAt(b) < addedAt(c)
        /\ priorityOf(dag, tasks, b) > priorityOf(dag, tasks, c)
        /\ priorityOf(dag, tasks, c) > priorityOf(dag, tasks, a)
        /\ pc[b] = "done" /\ pc[c] = "running" /\ pc[a] = "waiting"

\* The number of nodes the planner had emitted when n entered its pool: none
\* for a root, else all up to the last of n's dependencies.
enteredAfter(n) == IF parentsOf(n) = {} THEN 0 ELSE Max({pos(p) : p \in parentsOf(n)})

\* C18: of two nodes of equal priority that were in the planner's pool when
\* one of them was emitted, the one whose descriptor was added earlier was.
C18_TieBreakByInsertion ==
    planned =>
        \A x \in Nodes : \A y \in Nodes :
            /\ x # y
            /\ priorityOf(dag, tasks, x) = priorityOf(dag, tasks, y)
            /\ addedAt(x) < addedAt(y)
            /\ enteredAfter(x) < pos(y)
            /\ enteredAfter(y) < pos(x)
            => pos(x) < pos(y)

\* ------------------------------------------------ properties of the Semaphore
\* C19: a waiting caller is granted its permit only when no caller has waited
\* longer: it is the first of the callers that wait, in the order they began to.
C19_FirstComeFirstServed ==
    [][\A n \in Ids : pc[n] = "waiting" /\ pc'[n] # "waiting"
          => n = Head(waitOrder) /\ pc'[n] = "granted"]_vars

\* Two callers wait and a release() can grant the one that has waited longer.
C19_Witness ==
    /\ Len(waitOrder) >= 2
    /\ \E n \in Ids :
          ENABLED (Release(n) /\ pc'[waitOrder[1]] = "granted"
                              /\ pc'[waitOrder[2]] = "waiting")

\* C20: while a caller waits no permit is free; a release() that finds a
\* waiter resumes the head of the queue and leaves the free count as it was;
\* an acquire() is granted at once only when nobody waits.
C20_HandOff ==
    [][/\ Len(semaphore.tasks) > 0 => semaphore.counter = 0
       /\ Len(semaphore'.tasks) > 0 => semaphore'.counter = 0
       /\ Len(semaphore'.tasks) < Len(semaphore.tasks) =>
             /\ semaphore'.counter = semaphore.counter
             /\ semaphore'.tasks = Tail(semaphore.tasks)
             /\ pc'[Head(semaphore.tasks)] = "granted"
       /\ \A n \in Ids : pc[n] \in {"new", "done"} /\ pc'[n] = "granted"
             => semaphore.tasks = <<>>]_vars

\* A release() can hand the permit over while a second caller waits behind.
C20_Witness ==
    /\ Len(semaphore.tasks) >= 2
    /\ semaphore.counter = 0
    /\ \E n \in Ids :
          ENABLED (Release(n) /\ Len(semaphore'.tasks) = Len(semaphore.tasks) - 1)

\* ------------------------------------------- properties of the task runner
\* The places of the records of one type among the records of task n.
recordsOf(n, type) == {i \in DOMAIN emitted[n] : emitted[n][i].type = type}

launched(n) == pc[n] \in {"running", "sleeping", "done"}

\* C21: the action of a task is called at most retryCount + 1 times, at least
\* once exactly when the task was launched, and a failed task has had exactly
\* retryCount + 1 calls, all of them failed.
C21_AttemptsBounded ==
    \A n \in Nodes :
        /\ invocations[n] <= taskOf(n).retryCount + 1
        /\ invocations[n] >= 1 <=> launched(n)
        /\ status[n] = "failed" =>
              /\ invocations[n] = taskOf(n).retryCount + 1
              /\ attempts[n] = taskOf(n).retryCount + 1
              /\ Cardinality(recordsOf(n, "attempt_failed")) = taskOf(n).retryCount + 1

\* A task with a retry failed after two calls and a task without after one.
C21_Witness ==
    /\ \E n \in Nodes :
          taskOf(n).retryCount = 1 /\ status[n] = "failed" /\ invocations[n] = 2
    /\ \E n \in Nodes :
          taskOf(n).retryCount = 0 /\ status[n] = "failed" /\ invocations[n] = 1

\* C22: a task that succeeded has ended, its artifact is what its last call
\* returned, nothing was written for it after the success (no further call),
\* and every failed attempt before was followed by the next attempt no sooner
\* than retryDelay later.
C22_SuccessAfterRetries ==
    \A n \in Nodes : status[n] = "success" =>
        LET e == emitted[n] IN
        /\ pc[n] = "done"
        /\ invocations[n] <= taskOf(n).retryCount + 1
        /\ artifact[n] = ActionResult(n, args[n])
        /\ e[Len(e)].type = "succeeded"
        /\ Cardinality(recordsOf(n, "succeeded")) = 1
        /\ Cardinality(recordsOf(n, "started")) = invocations[n]
        /\ \A i \in recordsOf(n, "attempt_failed") :
              /\ e[i + 1].type = "started"
              /\ e[i + 1].at >= e[i].at + taskOf(n).retryDelay

\* A task with a retryDelay succeeded at its second attempt.
C22_Witness ==
    \E n \in Nodes :
        /\ status[n] = "success"
        /\ invocations[n] = 2
        /\ taskOf(n).retryDelay = MaxDelay

\* C23: the metrics of a task start at the start of its first attempt, and the
\* duration runs from there to the end.
C23_MetricsFromFirstAttempt ==
    \A n \in Nodes : metrics[n].set =>
        /\ metrics[n].startTime = emitted[n][1].at
        /\ metrics[n].duration = metrics[n].endTime - emitted[n][1].at

\* C24: a task with a terminal status has metrics.
C24_MetricsOnTerminal ==
    \A n \in Nodes : status[n] # "unset" => metrics[n].set

\* C25: the records of a task are one started record, then attempt-failed
\* records, then at most one terminal record; a succeeded task has one
\* attempt-failed record less than attempts, a failed task as many as attempts.
C25_RecordOrder ==
    \A n \in Nodes : emitted[n] # <<>> =>
        LET e == emitted[n] IN
        /\ e[1].type = "started"
        /\ Cardinality(recordsOf(n, "started")) = 1
        /\ \A i \in 2..Len(e) :
              \/ e[i].type = "attempt_failed"
              \/ i = Len(e) /\ e[i].type \in {"succeeded", "failed"}
        /\ status[n] = "success" =>
              Cardinality(recordsOf(n, "attempt_failed")) = invocations[n] - 1
        /\ status[n] = "failed" =>
              Cardinality(recordsOf(n, "attempt_failed")) = invocations[n]

\* ------------------------------------------------- properties of the outcome
sequenceOk == mainSpan = [status |-> "OK", error |-> NoError]

\* C26: build() of a Sequence without tasks resolves, calls no action and
\* reports success: the span of the sequence is OK and no error is reported.
C26_EmptySequenceSucceeds ==
    buildState # "idle" /\ tasks = <<>> =>
        /\ buildState = "resolved"
        /\ noActionInvoked
        /\ sequenceOk

\* C27: a run in which tasks failed, none of them with onError "abort",
\* resolves with the sequence reported OK.
C27_ContinueFailuresStillOk ==
    /\ buildState # "rejected"
    /\ buildState = "resolved" /\ ~abortDecided /\ (\E n \in Nodes : status[n] = "failed")
          => sequenceOk

\* C28: every call of an action gets one argument per declared dependency, in
\* the declared order: argument i is the artifact of the i-th declared parent.
C28_ArgumentsInDeclaredOrder ==
    \A c \in Nodes : invocations[c] > 0 =>
        LET declared == taskOf(c).dependencies IN
        /\ Len(args[c]) = Len(declared)
        /\ \A i \in DOMAIN declared : args[c][i] = artifact[declared[i]]

\* The second attempt of a task with two parents of different outcome is running.
C28_Witness ==
    \E c \in Nodes :
        /\ invocations[c] = 2 /\ pc[c] = "running"
        /\ Len(taskOf(c).dependencies) = 2
        /\ args[c][1] # args[c][2]
        /\ args[c][2] = Null

\* C29: when build() has settled no launch is left: every task launched has
\* a terminal status and has given its permit back.
C29_SettledMeansNoneInFlight ==
    buildState \in {"resolved", "rejected"} =>
        \A n \in Ids : pc[n] # "new" => pc[n] = "done" /\ status[n] # "unset"

\* C30: a build() under way settles; the tasks all end unless an abort is
\* decided; no launch waits for a permit forever.
C30_Terminates ==
    /\ (buildState = "running") ~> (buildState \in {"resolved", "rejected"})
    /\ (buildState = "running") ~> (abortDecided \/ \A n \in Nodes : status[n] # "unset")
    /\ \A n \in Ids : (pc[n] = "waiting") ~> (pc[n] = "done")

\* With one permit, two roots have ended, one of them after a retry: one of
\* them had to wait for the permit.
C30_Witness ==
    /\ buildState = "resolved"
    /\ maxConcurrencyOf(config) = 1
    /\ Cardinality({n \in Nodes : isRoot(n) /\ pc[n] = "done"}) = 2
    /\ \E n \in Nodes : invocations[n] = 2

\* ------------------------------------------- properties of permits and spans
permitsInUse == maxConcurrencyOf(config) - semaphore.counter

\* C31: permits are in use only by launches that are about to call or are
\* calling their action: a task that sleeps between two attempts holds none.
C31_NoPermitWhileSleeping ==
    buildState \in {"running", "resolved"} =>
        permitsInUse = Cardinality({n \in Ids : pc[n] \in {"granted", "running"}})

\* C32: while a permit is free, a task whose dependencies have all ended has
\* begun, also when peers of the level of a dependency are still under way.
C32_LaunchedWhenParentsDone ==
    buildState = "running" /\ semaphore.counter > 0 =>
        \A c \in Nodes :
            (parentsOf(c) # {} /\ \A p \in parentsOf(c) : pc[p] = "done")
                => pc[c] \notin {"new", "waiting"}

\* C35: the span of a task is ended at most once, only when the task has its
\* terminal status and the span its status, and it is ended when the launch
\* has ended.
C35_SpanClosedOnceAtTheEnd ==
    \A n \in Nodes :
        /\ span[n].ends <= 1
        /\ span[n].ends >= 1 => status[n] # "unset" /\ span[n].status # "UNSET"
        /\ pc[n] = "done" => span[n].ends = 1

\* C36: the free permits and the permits of the launches under way add up to
\* K, the free ones stay within 0..K, and all K are free once no launch is
\* under way.
C36_PermitConservation ==
    buildState \in {"running", "resolved"} =>
        LET K == maxConcurrencyOf(config) IN
        /\ semaphore.counter + Cardinality({n \in Ids : inFlight(n)}) = K
        /\ semaphore.counter \in 0..K
        /\ (\A n \in Ids : pc[n] \in {"new", "done"}) => semaphore.counter = K

\* Three launches have ended, one by success, one by a failure that continues
\* and one by a failure that aborts, and every permit is free.
C36_Witness ==
    /\ buildState = "resolved"
    /\ \A n \in Ids : pc[n] \in {"new", "done"}
    /\ semaphore.counter = maxConcurrencyOf(config)
    /\ \E a, b, c \in Nodes :
          /\ status[a] = "success"
          /\ status[b] = "failed" /\ ~abortsOnError(b)
          /\ status[c] = "failed" /\ abortsOnError(c)

\* C37: once a task has a terminal status, no step changes the status, calls
\* its action or writes its artifact.
C37_TerminalStatusIsFinal ==
    [][\A n \in Ids : status[n] # "unset" =>
          /\ status'[n] = status[n]
          /\ invocations'[n] = invocations[n]
          /\ artifact'[n] = artifact[n]]_vars

\* A task has ended after a retry and a child of it is running.
C37_Witness ==
    \E n, m \in Nodes :
        /\ status[n] # "unset" /\ invocations[n] = 2
        /\ n \in parentsOf(m)
        /\ pc[m] = "running"

\* C38: after the sort the inDegree of every node is the number of its
\* dependencies, as before it, and a second sort of the graph gives the order
\* of the first.
C38_SortLeavesGraph ==
    sortedNodes # <<>> =>
        /\ \A n \in DOMAIN dag.nodes :
              dag.nodes[n].inDegree = Len(dag.nodes[n].dependencies)
        /\ topologicalSortWithPriority(dag, tasks).sorted = sortedNodes

\* --------------------------------- properties of AdvancedSequenceBuilder
layerIndex(name) == CHOOSE i \in DOMAIN layers : layers[i] = name

\* Every dependsOn names layers that are there and were added before.
dependsOnEarlierLayers ==
    \A l \in DOMAIN dependencies : \A d \in Range(dependencies[l]) :
        d \in Range(layers) /\ layerIndex(d) < layerIndex(l)

\* C33: the execute function of a layer has been called only if the execute
\* function of every layer of its dependsOn has returned.
C33_DependsOnCompleteFirst ==
    dependsOnEarlierLayers =>
        \A l \in Range(layers) : executions[l] > 0 =>
            \A d \in Range(dependenciesOf(dependencies, l)) :
                d \in DOMAIN executionPromises /\ executionPromises[d] = Fulfilled

\* C34: no more than config.concurrency execute functions are in flight.
C34_InFlightAtMostConcurrency ==
    Cardinality(executing) <= concurrency

\* C39: when build() of the first definition has resolved and no execute
\* function has thrown, the execute function of every layer has been called
\* exactly once.
C39_EveryLayerExecutedOnce ==
    (/\ definition = 1
     /\ buildPromise = "resolved"
     /\ dependsOnEarlierLayers
     /\ \A n \in DOMAIN executionPromises :
            executionPromises[n].reason.kind # "ExecuteError")
        => \A l \in Range(layers) : executions[l] = 1

\* C40: a removed layer is not handed to executeLayer, not executed, and
\* build() does not reject for not finding it.
C40_RemovedLayerIgnored ==
    \A name \in removed :
        /\ name \notin DOMAIN executionPromises
        /\ executions[name] = 0
        /\ buildRejection # LayerNotFound(name)

====
